---- MODULE Spec2Model ----
(***************************************************************************)
(* A model of src/haiku_select.cc, the Haiku selection and notification   *)
(* glue of GNU Emacs: the three clipboards with their recorded change     *)
(* counts and owned flags, the BMessage wrappers with their return-code   *)
(* translation, and the notification identifier allocator.                *)
(*                                                                         *)
(* The BClipboard / BMessage objects are the operating system's; they are  *)
(* modelled at the call sites of the source by what the calls are used    *)
(* for there: Lock downloads the committed contents into the local data   *)
(* message, Clear empties the local message, Commit uploads it and raises  *)
(* the system count by one, Revert downloads again, Unlock releases.       *)
(***************************************************************************)
EXTENDS Integers, Sequences, FiniteSets, TLC

VARIABLES
  SystemCount,          \* [clipboard -> Nat], BClipboard::SystemCount ()
  sysData,              \* [clipboard -> message], the committed contents
  fData,                \* [clipboard -> message], the local data message
  lockDepth,            \* [clipboard -> Nat], times this process holds the lock
  count_clipboard, count_primary, count_secondary,
  owned_clipboard, owned_primary, owned_secondary,
  last_notification_id,
  alive,                \* FALSE once the process has aborted or crashed
  ret,                  \* the last event: the call, its arguments and results
  lastChange,           \* history: who made the latest commit, per clipboard
  heldCounts,           \* history: the values each system count has held
  disownedCalls,        \* history: haiku_selection_disowned calls since the
                        \* owned flag was last set, per clipboard
  allocated             \* history: notification ids allocated so far

vars == << SystemCount, sysData, fData, lockDepth,
           count_clipboard, count_primary, count_secondary,
           owned_clipboard, owned_primary, owned_secondary,
           last_notification_id, alive, ret,
           lastChange, heldCounts, disownedCalls, allocated >>

countVars == << count_clipboard, count_primary, count_secondary >>
ownedVars == << owned_clipboard, owned_primary, owned_secondary >>
boardVars == << SystemCount, sysData, fData, lockDepth, lastChange, heldCounts >>

----------------------------------------------------------------------------
(* Bounds of the model.                                                    *)

\* Commits (by this process and by other programs) over all clipboards, in
\* the ownership specification and in the data specification.
MaxCommits == 4
MaxDataCommits == 1
\* Clipboard locks held at a time by be_lock_clipboard_message, nested ones
\* counted each.
MaxLockDepth == 1
\* Width in bits of the model's intmax_t.
IntmaxBits == 4

----------------------------------------------------------------------------
(* enum haiku_clipboard, type codes, status codes, payloads.               *)

Clipboards == {"CLIPBOARD_PRIMARY", "CLIPBOARD_SECONDARY", "CLIPBOARD_CLIPBOARD"}

\* A pointer that may be NULL: <<>> is NULL, <<x>> points to x.
NULL == << >>
Ptr(x) == << x >>
Deref(p) == p[1]
NoClipboard == "-"
NoName == "-"

B_MIME_TYPE == "B_MIME_TYPE"
B_STRING_TYPE == "B_STRING_TYPE"
TypeCodes == {B_MIME_TYPE, B_STRING_TYPE}

B_OK == "B_OK"
B_NAME_NOT_FOUND == "B_NAME_NOT_FOUND"
B_BAD_TYPE == "B_BAD_TYPE"
B_ERROR == "B_ERROR"
Status == {B_OK, B_NAME_NOT_FOUND, B_BAD_TYPE, B_ERROR}

\* Field names (MIME types) and byte strings of different lengths.
Names == {"text/plain", "text/html"}
Payloads == {<<1>>, <<2, 3>>}

\* A BMessage as the wrappers see it: per name, the type code and bytes of
\* the item at index 0, or NULL when no field has that name.
Fields == [tc : TypeCodes, bytes : Payloads]
Entries == {NULL} \cup {Ptr(e) : e \in Fields}
Messages == [Names -> Entries]
EmptyMessage == [n \in Names |-> NULL]

TotalCommits ==
  SystemCount["CLIPBOARD_PRIMARY"] + SystemCount["CLIPBOARD_SECONDARY"]
  + SystemCount["CLIPBOARD_CLIPBOARD"]

----------------------------------------------------------------------------
(* The recorded counts and owned flags.                                    *)

Count(id) ==
  CASE id = "CLIPBOARD_CLIPBOARD" -> count_clipboard
    [] id = "CLIPBOARD_PRIMARY" -> count_primary
    [] id = "CLIPBOARD_SECONDARY" -> count_secondary

Owned(id) ==
  CASE id = "CLIPBOARD_CLIPBOARD" -> owned_clipboard
    [] id = "CLIPBOARD_PRIMARY" -> owned_primary
    [] id = "CLIPBOARD_SECONDARY" -> owned_secondary

\* The record of a call.  Every field keeps one type over all calls:
\*   op, id, name   the function, its clipboard and its field name
\*   data, clear    the data pointer and the clear / discard flag passed
\*   arg            an integer argument (supersedes)
\*   returned       FALSE when the call never returned (abort, crash)
\*   val            an int or intmax_t result
\*   flag           a bool result
\*   ptr            a char * result (a fresh copy of bytes)
\*   message        *message_return: the clipboard whose data message it is
\*   len            the caller's *len: NULL while unwritten
\*   written        the caller's output parameters the call stored to
\*   native         the status of each native call made, in order
\*   locks, unlocks successful Lock () calls and Unlock () calls made
\*   copied         whether memcpy ran
\*   calls          the haiku_selection_disowned (id, n) calls made
NoRet ==
  [op |-> "none", id |-> NoClipboard, name |-> NoName, data |-> NULL,
   clear |-> FALSE, arg |-> 0, returned |-> TRUE, val |-> 0, flag |-> FALSE,
   ptr |-> NULL, message |-> NULL, len |-> NULL, written |-> {}, native |-> << >>,
   locks |-> 0, unlocks |-> 0, copied |-> FALSE, calls |-> {}]

Call(op, id) == [NoRet EXCEPT !.op = op, !.id = id]

\* be_update_clipboard_count, mutated: records the count the clipboard will
\* have after the commit that follows, not the count it has.
RecordCount_Anticipate(id) ==
  /\ count_clipboard' = IF id = "CLIPBOARD_CLIPBOARD"
                        THEN SystemCount[id] + 1 ELSE count_clipboard
  /\ count_primary' = IF id = "CLIPBOARD_PRIMARY"
                      THEN SystemCount[id] + 1 ELSE count_primary
  /\ count_secondary' = IF id = "CLIPBOARD_SECONDARY"
                        THEN SystemCount[id] + 1 ELSE count_secondary
  /\ owned_clipboard' = IF id = "CLIPBOARD_CLIPBOARD" THEN TRUE ELSE owned_clipboard
  /\ owned_primary' = IF id = "CLIPBOARD_PRIMARY" THEN TRUE ELSE owned_primary
  /\ owned_secondary' = IF id = "CLIPBOARD_SECONDARY" THEN TRUE ELSE owned_secondary
  /\ disownedCalls' = [disownedCalls EXCEPT ![id] = 0]

\* The body of be_update_clipboard_count: the switch over the clipboard.
RecordCount(id) ==
  /\ count_clipboard' = IF id = "CLIPBOARD_CLIPBOARD"
                        THEN SystemCount[id] ELSE count_clipboard
  /\ count_primary' = IF id = "CLIPBOARD_PRIMARY"
                      THEN SystemCount[id] ELSE count_primary
  /\ count_secondary' = IF id = "CLIPBOARD_SECONDARY"
                        THEN SystemCount[id] ELSE count_secondary
  /\ owned_clipboard' = IF id = "CLIPBOARD_CLIPBOARD" THEN TRUE ELSE owned_clipboard
  /\ owned_primary' = IF id = "CLIPBOARD_PRIMARY" THEN TRUE ELSE owned_primary
  /\ owned_secondary' = IF id = "CLIPBOARD_SECONDARY" THEN TRUE ELSE owned_secondary
  /\ disownedCalls' = [disownedCalls EXCEPT ![id] = 0]

be_update_clipboard_count(id) ==
  /\ RecordCount(id)
  /\ ret' = Call("be_update_clipboard_count", id)
  /\ UNCHANGED << boardVars, last_notification_id, alive, allocated >>

----------------------------------------------------------------------------
(* BMessage calls made on a clipboard's data message.                      *)

\* data->FindData (type, B_MIME_TYPE, &ptr, &nbytes): ptr is the bytes of
\* the field of that name and type code, NULL when there is none.
FindData(msg, type) ==
  IF msg[type] # NULL /\ Deref(msg[type]).tc = B_MIME_TYPE
  THEN Ptr(Deref(msg[type]).bytes)
  ELSE NULL

\* The status of message_data->ReplaceData (type, B_MIME_TYPE, data, len).
ReplaceData(msg, type) ==
  IF msg[type] = NULL THEN B_NAME_NOT_FOUND
  ELSE IF Deref(msg[type]).tc # B_MIME_TYPE THEN B_BAD_TYPE
  ELSE B_OK

RemoveName(msg, type) == [msg EXCEPT ![type] = NULL]

PutField(msg, type, tc, bytes) ==
  [msg EXCEPT ![type] = Ptr([tc |-> tc, bytes |-> bytes])]

\* The data branch of be_set_clipboard_data_1: replace the field, add it when
\* ReplaceData answered B_NAME_NOT_FOUND, leave the message alone on any
\* other status; with data == NULL remove the name.
StoreData(msg, type, data) ==
  IF data # NULL
  THEN IF ReplaceData(msg, type) \in {B_OK, B_NAME_NOT_FOUND}
       THEN PutField(msg, type, B_MIME_TYPE, Deref(data))
       ELSE msg
  ELSE RemoveName(msg, type)

----------------------------------------------------------------------------
(* BClipboard calls, as updates of one clipboard's state.                  *)

\* cb->Commit (): upload the local message, the system count goes up by one.
Commit(cb, msg, who) ==
  /\ sysData' = [sysData EXCEPT ![cb] = msg]
  /\ SystemCount' = [SystemCount EXCEPT ![cb] = @ + 1]
  /\ heldCounts' = [heldCounts EXCEPT ![cb] = @ \cup {SystemCount[cb] + 1}]
  /\ lastChange' = [lastChange EXCEPT ![cb] = who]

\* cb->Unlock () by the holder.  Every Lock downloads the contents anew, so
\* the local message is dead once the lock is released: it is reset then.
AfterUnlock(depth, local) == IF depth = 0 THEN EmptyMessage ELSE local

\* What be_set_clipboard_data_1 leaves in the local message and whether it
\* committed.  lockOK: cb->Lock () succeeded; dataOK: cb->Data () was not NULL.
be_set_clipboard_data_1(cb, type, data, clear, lockOK, dataOK) ==
  IF ~lockOK
  THEN [local |-> fData[cb], commit |-> FALSE, locks |-> 0, unlocks |-> 0]
  ELSE LET downloaded == sysData[cb]
           cleared == IF clear THEN EmptyMessage ELSE downloaded
       IN IF ~dataOK
          THEN [local |-> cleared, commit |-> FALSE, locks |-> 1, unlocks |-> 1]
          ELSE [local |-> StoreData(cleared, type, data), commit |-> TRUE,
                locks |-> 1, unlocks |-> 1]

be_set_clipboard_data(id, type, data, clear, lockOK, dataOK) ==
  LET r == be_set_clipboard_data_1(id, type, data, clear, lockOK, dataOK) IN
  /\ RecordCount(id)
  /\ lockDepth' = [lockDepth EXCEPT ![id] = @ + r.locks - r.unlocks]
  /\ fData' = [fData EXCEPT ![id] = AfterUnlock(lockDepth'[id], r.local)]
  /\ IF r.commit
     THEN Commit(id, r.local, "self")
     ELSE UNCHANGED << sysData, SystemCount, heldCounts, lastChange >>
  /\ ret' = [Call("be_set_clipboard_data", id) EXCEPT
               !.name = type, !.data = data, !.clear = clear,
               !.native = IF ~lockOK THEN << B_ERROR >>
                          ELSE IF ~dataOK THEN << B_OK, B_ERROR >>
                          ELSE << B_OK, B_OK >>,
               !.flag = r.commit, !.locks = r.locks, !.unlocks = r.unlocks]
  /\ UNCHANGED << last_notification_id, alive, allocated >>

\* clipboard_owner_p
clipboard_owner_p ==
  count_clipboard >= 0
  /\ count_clipboard + 1 = SystemCount["CLIPBOARD_CLIPBOARD"]

\* primary_owner_p, mutated: written by copying clipboard_owner_p and
\* renaming only the clipboard object.
primary_owner_p_Copied ==
  count_clipboard >= 0
  /\ count_clipboard + 1 = SystemCount["CLIPBOARD_PRIMARY"]

primary_owner_p ==
  count_primary >= 0
  /\ count_primary + 1 = SystemCount["CLIPBOARD_PRIMARY"]

secondary_owner_p ==
  count_secondary >= 0
  /\ count_secondary + 1 = SystemCount["CLIPBOARD_SECONDARY"]

owner_p(clipboard) ==
  CASE clipboard = "CLIPBOARD_PRIMARY" -> primary_owner_p
    [] clipboard = "CLIPBOARD_SECONDARY" -> secondary_owner_p
    [] clipboard = "CLIPBOARD_CLIPBOARD" -> clipboard_owner_p

be_clipboard_owner_p(clipboard) ==
  /\ ret' = [Call("be_clipboard_owner_p", clipboard) EXCEPT
               !.flag = owner_p(clipboard)]
  /\ UNCHANGED << boardVars, countVars, ownedVars, disownedCalls,
                  last_notification_id, alive, allocated >>

\* The test be_handle_clipboard_changed_message makes per clipboard, mutated:
\* >= where the code has >.
ShouldDisown_AtLeast(cnt, n, own) == cnt # -1 /\ n >= cnt + 1 /\ own

\* The test be_handle_clipboard_changed_message makes for each clipboard.
ShouldDisown(cnt, n, own) == cnt # -1 /\ n > cnt + 1 /\ own

\* The owned flag after the handler, mutated: the flag is left set.
OwnedAfter_Kept(cnt, n, own) == own

\* The owned flag after the handler's test.
OwnedAfter(cnt, n, own) == IF ShouldDisown(cnt, n, own) THEN FALSE ELSE own

be_handle_clipboard_changed_message ==
  LET n_clipboard == SystemCount["CLIPBOARD_CLIPBOARD"]
      n_primary == SystemCount["CLIPBOARD_PRIMARY"]
      n_secondary == SystemCount["CLIPBOARD_SECONDARY"]
      d_clipboard == ShouldDisown(count_clipboard, n_clipboard, owned_clipboard)
      d_primary == ShouldDisown(count_primary, n_primary, owned_primary)
      d_secondary == ShouldDisown(count_secondary, n_secondary, owned_secondary)
  IN
  /\ owned_clipboard' = OwnedAfter(count_clipboard, n_clipboard, owned_clipboard)
  /\ owned_primary' = OwnedAfter(count_primary, n_primary, owned_primary)
  /\ owned_secondary' = OwnedAfter(count_secondary, n_secondary, owned_secondary)
  /\ ret' = [Call("be_handle_clipboard_changed_message", NoClipboard) EXCEPT
               !.calls =
                 (IF d_clipboard THEN {<< "CLIPBOARD_CLIPBOARD", n_clipboard >>} ELSE {})
                 \cup (IF d_primary THEN {<< "CLIPBOARD_PRIMARY", n_primary >>} ELSE {})
                 \cup (IF d_secondary THEN {<< "CLIPBOARD_SECONDARY", n_secondary >>} ELSE {})]
  /\ disownedCalls' =
       [id \in Clipboards |->
          disownedCalls[id]
          + (CASE id = "CLIPBOARD_CLIPBOARD" -> IF d_clipboard THEN 1 ELSE 0
               [] id = "CLIPBOARD_PRIMARY" -> IF d_primary THEN 1 ELSE 0
               [] id = "CLIPBOARD_SECONDARY" -> IF d_secondary THEN 1 ELSE 0)]
  /\ UNCHANGED << boardVars, countVars, last_notification_id, alive, allocated >>

\* be_lock_clipboard_message: lockOK is board->Lock (), dataOK whether
\* board->Data () returned a message.
be_lock_clipboard_message(clipboard, clear, lockOK, dataOK) ==
  /\ IF ~lockOK
     THEN /\ ret' = [Call("be_lock_clipboard_message", clipboard) EXCEPT
                       !.clear = clear, !.val = 1, !.native = << B_ERROR >>]
          /\ UNCHANGED << fData, lockDepth >>
     ELSE /\ fData' = [fData EXCEPT ![clipboard] =
                         IF clear THEN EmptyMessage ELSE sysData[clipboard]]
          /\ lockDepth' = [lockDepth EXCEPT ![clipboard] = @ + 1]
          /\ ret' = [Call("be_lock_clipboard_message", clipboard) EXCEPT
                       !.clear = clear, !.val = 0, !.locks = 1,
                       !.written = {"message_return"},
                       !.message = IF dataOK THEN Ptr(clipboard) ELSE NULL,
                       !.native = << B_OK, IF dataOK THEN B_OK ELSE B_ERROR >>]
  /\ UNCHANGED << SystemCount, sysData, lastChange, heldCounts,
                  countVars, ownedVars, disownedCalls,
                  last_notification_id, alive, allocated >>

\* be_unlock_clipboard, called by the holder of the lock.
be_unlock_clipboard(clipboard, discard) ==
  /\ lockDepth[clipboard] > 0
  /\ lockDepth' = [lockDepth EXCEPT ![clipboard] = @ - 1]
  /\ IF discard
     THEN /\ fData' = [fData EXCEPT ![clipboard] =
                         AfterUnlock(lockDepth'[clipboard], sysData[clipboard])]
          /\ UNCHANGED << sysData, SystemCount, heldCounts, lastChange >>
     ELSE /\ Commit(clipboard, fData[clipboard], "self")
          /\ fData' = [fData EXCEPT ![clipboard] =
                         AfterUnlock(lockDepth'[clipboard], fData[clipboard])]
  /\ ret' = [Call("be_unlock_clipboard", clipboard) EXCEPT
               !.clear = discard, !.unlocks = 1]
  /\ UNCHANGED << countVars, ownedVars, disownedCalls,
                  last_notification_id, alive, allocated >>

\* be_find_clipboard_data_1, mutated: the path for a missing field returns
\* without cb->Unlock ().
be_find_clipboard_data_1_Leak(msg, type, lenGiven, lockOK, dataOK, mallocOK, ub) ==
  LET ptr == FindData(msg, type)
      r == [NoRet EXCEPT !.op = "be_find_clipboard_data", !.name = type]
  IN
  IF ~lockOK THEN [r EXCEPT !.native = << B_ERROR >>]
  ELSE IF ~dataOK
  THEN [r EXCEPT !.native = << B_OK, B_ERROR >>, !.locks = 1, !.unlocks = 1]
  ELSE IF ptr = NULL
  THEN [r EXCEPT !.native = << B_OK, B_OK, B_NAME_NOT_FOUND >>,
                 !.locks = 1, !.unlocks = 0]
  ELSE [r EXCEPT !.native = << B_OK, B_OK, B_OK, B_OK >>,
                 !.locks = 1, !.unlocks = 1,
                 !.len = IF lenGiven THEN Ptr(Len(Deref(ptr))) ELSE NULL,
                 !.ptr = ptr, !.copied = TRUE]

\* be_find_clipboard_data_1 on a clipboard whose committed contents are msg.
\* lockOK: cb->Lock (); dataOK: cb->Data () is not NULL; mallocOK: malloc
\* returned a buffer.  After a failed malloc the code tests data, not value,
\* and memcpy writes through NULL: undefined, here either a crash inside
\* memcpy (the call never returns, the lock stays held) or a call that goes
\* on and returns the NULL value (ub names the outcome).
be_find_clipboard_data_1(msg, type, lenGiven, lockOK, dataOK, mallocOK, ub) ==
  LET ptr == FindData(msg, type)
      r == [NoRet EXCEPT !.op = "be_find_clipboard_data", !.name = type]
  IN
  IF ~lockOK THEN [r EXCEPT !.native = << B_ERROR >>]
  ELSE IF ~dataOK
  THEN [r EXCEPT !.native = << B_OK, B_ERROR >>, !.locks = 1, !.unlocks = 1]
  ELSE IF ptr = NULL
  THEN [r EXCEPT !.native = << B_OK, B_OK, B_NAME_NOT_FOUND >>,
                 !.locks = 1, !.unlocks = 1]
  ELSE LET n == IF lenGiven THEN Ptr(Len(Deref(ptr))) ELSE NULL IN
       IF mallocOK
       THEN [r EXCEPT !.native = << B_OK, B_OK, B_OK, B_OK >>,
                      !.locks = 1, !.unlocks = 1, !.len = n,
                      !.ptr = ptr, !.copied = TRUE]
       ELSE IF ub = "crash"
       THEN [r EXCEPT !.native = << B_OK, B_OK, B_OK, B_ERROR >>,
                      !.locks = 1, !.unlocks = 0, !.len = n,
                      !.returned = FALSE]
       ELSE [r EXCEPT !.native = << B_OK, B_OK, B_OK, B_ERROR >>,
                      !.locks = 1, !.unlocks = 1, !.len = n,
                      !.ptr = NULL, !.copied = TRUE]

be_find_clipboard_data(id, type, lenGiven, lockOK, dataOK, mallocOK, ub) ==
  LET r == be_find_clipboard_data_1(sysData[id], type, lenGiven,
                                    lockOK, dataOK, mallocOK, ub)
  IN
  /\ ret' = [r EXCEPT !.id = id]
  /\ lockDepth' = [lockDepth EXCEPT ![id] = @ + r.locks - r.unlocks]
  /\ fData' = IF lockOK
              THEN [fData EXCEPT ![id] = AfterUnlock(lockDepth'[id], sysData[id])]
              ELSE fData
  /\ alive' = r.returned
  /\ UNCHANGED << SystemCount, sysData, lastChange, heldCounts,
                  countVars, ownedVars, disownedCalls,
                  last_notification_id, allocated >>

\* be_add_message_data on the data message be_lock_clipboard_message
\* returned for clipboard id.  AddData fails with B_BAD_TYPE on a name held
\* under another type code, and may fail for lack of memory (nativeOK).
be_add_message_data(id, name, tc, buf, nativeOK) ==
  LET msg == fData[id]
      rc == IF msg[name] # NULL /\ Deref(msg[name]).tc # tc THEN B_BAD_TYPE
            ELSE IF nativeOK THEN B_OK ELSE B_ERROR
  IN
  /\ lockDepth[id] > 0
  /\ fData' = IF rc = B_OK /\ msg[name] = NULL
              THEN [fData EXCEPT ![id] = PutField(msg, name, tc, buf)]
              ELSE fData
  /\ ret' = [Call("be_add_message_data", id) EXCEPT
               !.name = name, !.data = Ptr(buf), !.native = << rc >>,
               !.val = IF rc # B_OK THEN 1 ELSE 0]
  /\ UNCHANGED << SystemCount, sysData, lockDepth, lastChange, heldCounts,
                  countVars, ownedVars, disownedCalls,
                  last_notification_id, alive, allocated >>

\* Another program commits msg to the clipboard.
OtherProgramCommit(cb, msg) ==
  /\ Commit(cb, msg, "other")
  /\ ret' = Call("OtherProgramCommit", cb)
  /\ UNCHANGED << fData, lockDepth, countVars, ownedVars, disownedCalls,
                  last_notification_id, alive, allocated >>

----------------------------------------------------------------------------
(* The BMessage wrappers: each takes the status of the native calls it     *)
(* makes and answers with its int.                                         *)

\* rc != B_OK as an int.
Failed(rc) == IF rc # B_OK THEN 1 ELSE 0

\* The statuses of a chain of native calls that stops at the first failure.
Chains(n) ==
  {c \in UNION {[1..k -> Status] : k \in 1..n} :
     /\ \A i \in 1..(Len(c) - 1) : c[i] = B_OK
     /\ Len(c) < n => c[Len(c)] # B_OK}

Wrapped(op, rcs, val, written) ==
  /\ ret' = [Call(op, NoClipboard) EXCEPT
               !.native = rcs, !.val = val, !.written = written]
  /\ UNCHANGED << boardVars, countVars, ownedVars, disownedCalls,
                  last_notification_id, alive, allocated >>

\* rc: msg->GetInfo (B_ANY_TYPE, index, &name, &type, count)
be_enum_message(rc) ==
  IF rc # B_OK
  THEN Wrapped("be_enum_message", << rc >>, 1, {})
  ELSE Wrapped("be_enum_message", << rc >>, 0, {"tc", "name_return"})

\* rcs: msg->FindRef, entry.SetTo, entry.GetPath
be_get_refs_data(rcs) ==
  IF \E i \in DOMAIN rcs : rcs[i] # B_OK
  THEN Wrapped("be_get_refs_data", rcs, 1, {})
  ELSE Wrapped("be_get_refs_data", rcs, 0, {"path_buffer"})

\* rc: msg->FindPoint (name, index, &point)
be_get_point_data(rc) ==
  IF rc # B_OK
  THEN Wrapped("be_get_point_data", << rc >>, 1, {})
  ELSE Wrapped("be_get_point_data", << rc >>, 0, {"x", "y"})

\* rc: msg->FindData (name, type_code, index, buf_return, size_return),
\* which stores to the caller's buffers itself.
be_get_message_data(rc) ==
  Wrapped("be_get_message_data", << rc >>, Failed(rc),
          {"buf_return", "size_return"})

\* rcs: entry.InitCheck, entry.GetRef, msg->AddRef
be_add_refs_data(rcs) ==
  IF Len(rcs) < 3
  THEN Wrapped("be_add_refs_data", rcs, 1, {})
  ELSE Wrapped("be_add_refs_data", rcs, Failed(rcs[3]), {})

\* rc: msg->AddPoint (name, BPoint (x, y))
be_add_point_data(rc) == Wrapped("be_add_point_data", << rc >>, Failed(rc), {})

\* rc: msg->AddMessage (name, data_message)
be_add_message_message(rc) ==
  IF rc # B_OK
  THEN Wrapped("be_add_message_message", << rc >>, 1, {})
  ELSE Wrapped("be_add_message_message", << rc >>, 0, {})

----------------------------------------------------------------------------
(* Notifications.                                                          *)

INTMAX_MAX == 2 ^ (IntmaxBits - 1) - 1
INTMAX_MIN == -(2 ^ (IntmaxBits - 1))

\* ckd_add (&r, a, b): the sum wrapped to intmax_t.
ckd_add(a, b) == ((a + b - INTMAX_MIN) % (2 ^ IntmaxBits)) + INTMAX_MIN

\* be_display_notification: type_for_type aborts on a type outside 0..2
\* while the BNotification is constructed, before an identifier is allocated.
be_display_notification(supersedes, type) ==
  IF type \notin {0, 1, 2}
  THEN /\ alive' = FALSE
       /\ ret' = [Call("be_display_notification", NoClipboard) EXCEPT
                    !.arg = supersedes, !.returned = FALSE]
       /\ UNCHANGED << boardVars, countVars, ownedVars, disownedCalls,
                       last_notification_id, allocated >>
  ELSE /\ IF supersedes < 0
          THEN /\ last_notification_id' = ckd_add(last_notification_id, 1)
               /\ allocated' = allocated \cup {last_notification_id'}
          ELSE UNCHANGED << last_notification_id, allocated >>
       /\ ret' = [Call("be_display_notification", NoClipboard) EXCEPT
                    !.arg = supersedes,
                    !.val = IF supersedes < 0 THEN last_notification_id'
                            ELSE supersedes]
       /\ UNCHANGED << boardVars, countVars, ownedVars, disownedCalls, alive >>

----------------------------------------------------------------------------
(* The state after be_clipboard_init.                                      *)

InitCommon ==
  /\ SystemCount = [c \in Clipboards |-> 0]
  /\ lockDepth = [c \in Clipboards |-> 0]
  /\ count_clipboard = -1
  /\ count_primary = -1
  /\ count_secondary = -1
  /\ owned_clipboard = FALSE
  /\ owned_primary = FALSE
  /\ owned_secondary = FALSE
  /\ last_notification_id = 0
  /\ alive = TRUE
  /\ ret = NoRet
  /\ lastChange = [c \in Clipboards |-> "none"]
  /\ heldCounts = [c \in Clipboards |-> {0}]
  /\ disownedCalls = [c \in Clipboards |-> 0]
  /\ allocated = {}

LocksHeld ==
  lockDepth["CLIPBOARD_PRIMARY"] + lockDepth["CLIPBOARD_SECONDARY"]
  + lockDepth["CLIPBOARD_CLIPBOARD"]

\* The bounds a step must stay within.
OwnBound == TotalCommits' <= MaxCommits
DataBound == TotalCommits' <= MaxDataCommits
LockBound == TotalCommits' <= MaxDataCommits /\ LocksHeld' <= MaxLockDepth

\* The native outcomes of one call: each native call is made only if the
\* ones before it succeeded.
SetRuns ==
  {[lockOK |-> FALSE, dataOK |-> FALSE],
   [lockOK |-> TRUE, dataOK |-> FALSE],
   [lockOK |-> TRUE, dataOK |-> TRUE]}

FindRuns ==
  {[lockOK |-> FALSE, dataOK |-> FALSE, mallocOK |-> FALSE, ub |-> "crash"],
   [lockOK |-> TRUE, dataOK |-> FALSE, mallocOK |-> FALSE, ub |-> "crash"],
   [lockOK |-> TRUE, dataOK |-> TRUE, mallocOK |-> TRUE, ub |-> "crash"],
   [lockOK |-> TRUE, dataOK |-> TRUE, mallocOK |-> FALSE, ub |-> "crash"],
   [lockOK |-> TRUE, dataOK |-> TRUE, mallocOK |-> FALSE, ub |-> "continue"]}

(* Ownership bookkeeping: the clipboards stay empty, every call that reads *)
(* or writes a count or an owned flag runs in any order, and other         *)
(* programs commit in between.                                             *)
InitOwn ==
  /\ InitCommon
  /\ sysData = [c \in Clipboards |-> EmptyMessage]
  /\ fData = [c \in Clipboards |-> EmptyMessage]

NextOwn ==
  \/ \E id \in Clipboards : be_update_clipboard_count(id)
  \/ \E id \in Clipboards, run \in SetRuns :
       /\ be_set_clipboard_data(id, "text/plain", NULL, FALSE,
                                run.lockOK, run.dataOK)
       /\ OwnBound
  \/ \E id \in Clipboards : be_clipboard_owner_p(id)
  \/ be_handle_clipboard_changed_message
  \/ \E id \in Clipboards : OtherProgramCommit(id, EmptyMessage) /\ OwnBound

SpecOwn == InitOwn /\ [][NextOwn]_vars

(* Clipboard data: the clipboards start with what other programs left on   *)
(* them; data is set and found, and other programs commit, in any order    *)
(* until the process crashes.                                              *)
ForeignMessage ==
  [n \in Names |->
     IF n = "text/plain"
     THEN Ptr([tc |-> B_STRING_TYPE, bytes |-> <<1>>])
     ELSE Ptr([tc |-> B_MIME_TYPE, bytes |-> <<2, 3>>])]

StartMessages == {EmptyMessage, ForeignMessage}

InitData ==
  /\ InitCommon
  /\ sysData \in {[c \in Clipboards |-> m] : m \in StartMessages}
  /\ fData = [c \in Clipboards |-> EmptyMessage]

NextData ==
  \/ \E id \in Clipboards, type \in Names, data \in {NULL, Ptr(<<1>>)},
        clear \in BOOLEAN :
       /\ alive
       /\ be_set_clipboard_data(id, type, data, clear, TRUE, TRUE)
       /\ DataBound
  \/ \E id \in Clipboards, type \in Names, run \in FindRuns :
       /\ alive
       /\ be_find_clipboard_data(id, type, TRUE, run.lockOK, run.dataOK,
                                 run.mallocOK, run.ub)
  \/ \E id \in Clipboards, msg \in StartMessages :
       OtherProgramCommit(id, msg) /\ DataBound

SpecData == InitData /\ [][NextData]_vars

(* The clipboard lock: the calls that take and release it, with data      *)
(* pending in the local message between the two.                          *)
InitLock ==
  /\ InitCommon
  /\ sysData = [c \in Clipboards |-> EmptyMessage]
  /\ fData = [c \in Clipboards |-> EmptyMessage]

NextLock ==
  \/ \E id \in Clipboards, run \in SetRuns :
       /\ alive
       /\ be_lock_clipboard_message(id, FALSE, run.lockOK, run.dataOK)
       /\ LockBound
  \/ \E id \in Clipboards, nativeOK \in BOOLEAN :
       /\ alive
       /\ be_add_message_data(id, "text/plain", B_MIME_TYPE, <<1>>, nativeOK)
  \/ \E id \in Clipboards, discard \in BOOLEAN :
       /\ alive
       /\ be_unlock_clipboard(id, discard)
       /\ LockBound
  \/ \E id \in Clipboards, run \in SetRuns :
       /\ alive
       /\ be_set_clipboard_data(id, "text/html", NULL, FALSE,
                                run.lockOK, run.dataOK)
       /\ LockBound
  \/ \E id \in Clipboards, run \in FindRuns :
       /\ alive
       /\ be_find_clipboard_data(id, "text/html", FALSE, run.lockOK,
                                 run.dataOK, run.mallocOK, run.ub)

SpecLock == InitLock /\ [][NextLock]_vars

(* The message wrappers, with the clipboard lock calls that hand out the   *)
(* data message they work on.                                              *)
NextMsg ==
  \/ \E rc \in Status : be_enum_message(rc)
  \/ \E rcs \in Chains(3) : be_get_refs_data(rcs)
  \/ \E rc \in Status : be_get_point_data(rc)
  \/ \E rc \in Status : be_get_message_data(rc)
  \/ \E rcs \in Chains(3) : be_add_refs_data(rcs)
  \/ \E rc \in Status : be_add_point_data(rc)
  \/ \E rc \in Status : be_add_message_message(rc)
  \/ \E id \in Clipboards, clear \in BOOLEAN, run \in SetRuns :
       /\ be_lock_clipboard_message(id, clear, run.lockOK, run.dataOK)
       /\ LockBound
  \/ \E id \in Clipboards, name \in Names, tc \in TypeCodes,
        nativeOK \in BOOLEAN :
       be_add_message_data(id, name, tc, <<1>>, nativeOK)
  \/ \E id \in Clipboards : be_unlock_clipboard(id, TRUE)

SpecMsg == InitLock /\ [][NextMsg]_vars

(* Notifications: new ones and superseding ones, of every type, until a    *)
(* call aborts.                                                            *)
NextNotify ==
  \E supersedes \in {-1, 0, 1, INTMAX_MAX}, type \in 0..3 :
    alive /\ be_display_notification(supersedes, type)

SpecNotify == InitLock /\ [][NextNotify]_vars

----------------------------------------------------------------------------
(* Ownership claims, checked under SpecOwn.                                *)

DisownedFor(r, id) == {c \in r.calls : c[1] = id}

\* C1: a be_clipboard_owner_p (id) call answers true only if the latest
\* change of clipboard id was a commit of this process.  (The statement of
\* the claim; the code answers true after be_update_clipboard_count followed
\* by another program's commit.)
C1_OwnerOnlyAfterOwnCommit ==
  (ret.op = "be_clipboard_owner_p" /\ ret.flag) => lastChange[ret.id] = "self"

\* C2: the handler tells this process's own single commit from a later
\* change by another program: with system count = recorded count + 1 it makes
\* no haiku_selection_disowned call for the clipboard and the owned flag is
\* true afterwards; with system count > recorded count + 1 and the flag set
\* it clears the flag and calls haiku_selection_disowned (id, system count).
C2_HandlerDistinguishes ==
  [][ret'.op = "be_handle_clipboard_changed_message" =>
       \A id \in Clipboards :
         /\ (Count(id) >= 0 /\ SystemCount[id] = Count(id) + 1)
              => (DisownedFor(ret', id) = {} /\ Owned(id)')
         /\ (Count(id) >= 0 /\ SystemCount[id] > Count(id) + 1 /\ Owned(id))
              => (/\ ~Owned(id)'
                  /\ DisownedFor(ret', id) = {<< id, SystemCount'[id] >>})
    ]_vars

C2_Witness ==
  /\ ret.op = "be_handle_clipboard_changed_message"
  /\ \E id \in Clipboards : << id, SystemCount[id] >> \in ret.calls
  /\ \E id \in Clipboards :
       Count(id) >= 0 /\ SystemCount[id] = Count(id) + 1 /\ Owned(id)

\* C3: each recorded count is -1 or a value the system count has held, is
\* never above the current system count, never decreases and never returns
\* to -1.
C3_CountsMonotone ==
  /\ [](\A id \in Clipboards :
          /\ Count(id) \in {-1} \cup heldCounts[id]
          /\ Count(id) <= SystemCount[id])
  /\ [][\A id \in Clipboards :
          /\ SystemCount'[id] >= SystemCount[id]
          /\ Count(id)' >= Count(id)
          /\ Count(id) # -1 => Count(id)' # -1]_vars

C3_Witness ==
  /\ ret.op \in {"be_update_clipboard_count", "be_set_clipboard_data"}
  /\ Count(ret.id) >= 1
  /\ \E id \in Clipboards : Count(id) >= 0 /\ Count(id) < SystemCount[id]

\* C4: be_clipboard_owner_p (id) is true exactly when the recorded count of
\* id is >= 0 and one below the system count of id; false while the count is
\* -1; true right after a be_set_clipboard_data (id) that committed; and the
\* call changes nothing.
C4_OwnerExactly ==
  /\ [](ret.op = "be_clipboard_owner_p" =>
          ret.flag = (Count(ret.id) >= 0
                      /\ Count(ret.id) + 1 = SystemCount[ret.id]))
  /\ [](ret.op = "be_clipboard_owner_p" /\ Count(ret.id) = -1 => ~ret.flag)
  /\ [](ret.op = "be_set_clipboard_data" /\ ret.flag => owner_p(ret.id))
  /\ [][ret'.op = "be_clipboard_owner_p" =>
          UNCHANGED << boardVars, countVars, ownedVars, disownedCalls >>]_vars

C4_Witness ==
  /\ ret.op = "be_clipboard_owner_p"
  /\ ret.flag
  /\ \E id \in Clipboards : id # ret.id /\ Count(id) = -1 /\ ~owner_p(id)

\* C9: between two calls that set the owned flag of a clipboard,
\* haiku_selection_disowned is called at most once for it; never for a
\* clipboard whose recorded count is -1; the handler changes no recorded count.
C9_DisownedOnce ==
  /\ [](\A id \in Clipboards :
          /\ disownedCalls[id] <= 1
          /\ disownedCalls[id] > 0 => Count(id) # -1)
  /\ [][ret'.op = "be_handle_clipboard_changed_message" =>
          /\ UNCHANGED countVars
          /\ \A c \in ret'.calls : Count(c[1]) # -1]_vars

C9_Witness ==
  /\ ret.op = "be_handle_clipboard_changed_message"
  /\ ret.calls = {}
  /\ \E id \in Clipboards :
       disownedCalls[id] = 1 /\ SystemCount[id] > Count(id) + 1

----------------------------------------------------------------------------
(* Data claims, checked under SpecData.                                    *)

\* What be_find_clipboard_data would return from the committed message msg
\* when its lock, its data message and its malloc all succeed.
FoundIn(msg, type) ==
  be_find_clipboard_data_1(msg, type, TRUE, TRUE, TRUE, TRUE, "crash")

\* C5: after a be_set_clipboard_data (id, type, data, len, clear) whose lock
\* and data message were obtained, a find of type on id with nothing in
\* between returns exactly the len bytes of data and sets n = len, or NULL
\* when data was NULL; the fields of other names are kept when clear is
\* false and gone when it is true; the other clipboards are unchanged.
\* (The statement of the claim; the code stores nothing when the name is held
\* under a type code other than B_MIME_TYPE and the message was not cleared.)
C5_RoundTrip ==
  [][(ret'.op = "be_set_clipboard_data" /\ ret'.flag) =>
       LET id == ret'.id
           type == ret'.name
           found == FoundIn(sysData'[id], type)
       IN
       /\ ret'.data # NULL =>
            (found.ptr = ret'.data /\ found.len = Ptr(Len(Deref(ret'.data))))
       /\ ret'.data = NULL => found.ptr = NULL
       /\ \A t \in Names \ {type} :
            sysData'[id][t] = IF ret'.clear THEN NULL ELSE sysData[id][t]
       /\ \A other \in Clipboards \ {id} : sysData'[other] = sysData[other]
    ]_vars

AnyFailed(r) == \E i \in DOMAIN r.native : r.native[i] # B_OK

\* C8: be_find_clipboard_data returns NULL, having copied nothing and with
\* the lock released, whenever the lock, the data message, the field or the
\* buffer could not be had; otherwise it returns a copy of the field's bytes.
\* (The statement of the claim; after a failed malloc the code tests data
\* where it means value and runs memcpy on the NULL buffer.)
C8_FindFailsCleanly ==
  ret.op = "be_find_clipboard_data" =>
    IF AnyFailed(ret)
    THEN /\ ret.returned
         /\ ret.ptr = NULL
         /\ ~ret.copied
         /\ ret.locks = ret.unlocks
         /\ lockDepth[ret.id] = 0
    ELSE /\ ret.returned
         /\ ret.ptr = FindData(sysData[ret.id], ret.name)
         /\ ret.ptr # NULL

----------------------------------------------------------------------------
(* The lock claim, checked under SpecLock.                                 *)

----------------------------------------------------------------------------
(* The wrapper claim, checked under SpecMsg.                               *)

IntWrappers ==
  {"be_enum_message", "be_get_refs_data", "be_get_point_data",
   "be_get_message_data", "be_add_message_data", "be_add_refs_data",
   "be_add_point_data", "be_add_message_message", "be_lock_clipboard_message"}

\* C7: an int-returning wrapper returns 0 if and only if every native call
\* it made succeeded, and 1 otherwise; on 1 from be_enum_message,
\* be_get_refs_data, be_get_point_data and be_lock_clipboard_message no
\* output parameter was stored to, and be_lock_clipboard_message took no lock.
\* (The statement of the claim; be_lock_clipboard_message returns 0 with a
\* NULL *message_return when board->Data () gives no message.)
C7_ReturnCodes ==
  ret.op \in IntWrappers =>
    /\ ret.val \in {0, 1}
    /\ ret.val = 0 <=> ~AnyFailed(ret)
    /\ (ret.val = 1 /\ ret.op \in {"be_enum_message", "be_get_refs_data",
                                   "be_get_point_data",
                                   "be_lock_clipboard_message"})
         => ret.written = {}
    /\ (ret.val = 1 /\ ret.op = "be_lock_clipboard_message") => ret.locks = 0

----------------------------------------------------------------------------
(* The notification claim, checked under SpecNotify.                       *)

\* C6: with supersedes < 0 be_display_notification stores and returns the
\* previous last_notification_id plus one, an identifier that is not
\* negative and above every identifier allocated before, also at the
\* largest intmax_t; with supersedes >= 0 it returns supersedes and leaves
\* last_notification_id alone.
\* (The statement of the claim; at INTMAX_MAX the code's ckd_add wraps and
\* the call returns INTMAX_MIN.)
C6_FreshIdentifier ==
  [][(ret'.op = "be_display_notification" /\ ret'.returned) =>
       IF ret'.arg < 0
       THEN /\ ret'.val = last_notification_id + 1
            /\ last_notification_id' = ret'.val
            /\ ret'.val >= 0
            /\ \A a \in allocated : a < ret'.val
       ELSE /\ ret'.val = ret'.arg
            /\ last_notification_id' = last_notification_id
    ]_vars

====
